---- MODULE Spec2Model ----
(***************************************************************************)
(* Model of automations.py: the four build-automation commands             *)
(* (setup-dev-env, build-wheel, build-linux-exe, clean-install) acting on  *)
(* the project's filesystem.  The filesystem is a function from the paths  *)
(* that exist (tuples of names, relative to PROJECT_ROOT_DIR) to "dir" or  *)
(* to the content of the file.  The script is sequential: pc is the        *)
(* statement that runs next, and an uncaught exception ends the command.   *)
(***************************************************************************)
EXTENDS Integers, Sequences, FiniteSets, TLC

VARIABLES
  fs,        \* the filesystem below PROJECT_ROOT_DIR
  pc,        \* next statement of the running command, "idle" between commands
  cmd,       \* the command running or last run, "none" before the first
  rc,        \* exit status of the last external process of this command
  raisedAt,  \* statement whose exception ended the command, "none" otherwise
  done,      \* statements of this command that ran to completion
  ncmds,     \* number of commands started so far
  absentAtStart, \* vendor directories missing when the command started
  streak,    \* consecutive successful direct calls of setup_build_environment
  snap       \* the Working Tree as the first call of the streak left it

vars == <<fs, pc, cmd, rc, raisedAt, done, ncmds, absentAtStart, streak, snap>>

\* Number of commands the operator runs one after the other.
MaxCmds == 3

\* ------------------------------------------------------------------------
\* Module-level values

DEBUG == FALSE

PROJECT_ROOT_DIR == << >>

\* BuildLinuxExe.__init__
src_path == PROJECT_ROOT_DIR \o <<"pymol">>
pymol_data_path == PROJECT_ROOT_DIR \o <<"pymol", "pymol", "data">>
build_script_filepath == PROJECT_ROOT_DIR \o <<"pymol", "build_linux_exe.py">>
license_filepath == PROJECT_ROOT_DIR \o <<"pymol", "LICENSE">>
readme_filepath == PROJECT_ROOT_DIR \o <<"pymol", "README.md">>
build_dir == PROJECT_ROOT_DIR \o <<"pymol", "build">>

\* Path definitions of setup_build_environment
tmp_build_script_filepath ==
  PROJECT_ROOT_DIR \o <<"scripts", "python", "build_linux_exe.py">>
tmp_vendor_pymol_path == PROJECT_ROOT_DIR \o <<"vendor", "pymol-open-source">>
tmp_pymol_python_src_path == tmp_vendor_pymol_path \o <<"modules">>
tmp_pymol_data_path == tmp_vendor_pymol_path \o <<"data">>
tmp_pymol_license_filepath == tmp_vendor_pymol_path \o <<"LICENSE">>
tmp_pymol_readme_filepath == tmp_vendor_pymol_path \o <<"README.md">>
tmp_edited_pmg_qt_filepath ==
  PROJECT_ROOT_DIR \o <<"edited", "pmg_qt", "pymol_qt_gui.py">>
tmp_edited_base_css_filepath ==
  PROJECT_ROOT_DIR \o <<"edited", "pymol", "data", "pymol", "base.css">>
tmp_edited_init_py_filepath ==
  PROJECT_ROOT_DIR \o <<"edited", "pymol", "__init__.py">>
tmp_alternative_splash_screen_filepath ==
  PROJECT_ROOT_DIR \o <<"alternative_design", "splash.png">>

\* Destinations of the four custom file replacements, as the code builds them
base_css_destination == tmp_pymol_data_path \o <<"pymol", "base.css">>
pmg_qt_destination == src_path \o <<"pmg_qt", "pymol_qt_gui.py">>
init_py_destination == src_path \o <<"pymol", "__init__.py">>
splash_destination == src_path \o <<"pymol", "data", "pymol", "splash.png">>

\* Paths of copy_pymol_sources, build_wheel, clean_install, setup_dev_env
tmp_src_path == PROJECT_ROOT_DIR \o <<"src", "python">>
wheel_src_root == PROJECT_ROOT_DIR \o <<"src">>
cmd_so == "_cmd.cpython-311-x86_64-linux-gnu.so"
CMD_FROM_BUILD_DIR == PROJECT_ROOT_DIR \o <<"cmake-build-release", cmd_so>>
CMD_FROM_PRE_BUILT_DIR == PROJECT_ROOT_DIR \o <<"pre-built", cmd_so>>
cmd_so_destination == PROJECT_ROOT_DIR \o <<"src", "python", "pymol", cmd_so>>
tmp_build_dir == PROJECT_ROOT_DIR \o <<"cmake-build-setup_py">>
dist_path == PROJECT_ROOT_DIR \o <<"dist">>
vcpkg_path == PROJECT_ROOT_DIR \o <<"vendor", "vcpkg">>

\* ------------------------------------------------------------------------
\* Filesystem primitives (pathlib, shutil)

IsPrefix(p, q) == Len(p) <= Len(q) /\ SubSeq(q, 1, Len(p)) = p

Exists(f, p) == p = << >> \/ p \in DOMAIN f

IsDir(f, p) == p = << >> \/ (p \in DOMAIN f /\ f[p] = "dir")

IsFile(f, p) == p \in DOMAIN f /\ f[p] # "dir"

Parent(p) == SubSeq(p, 1, Len(p) - 1)

\* p and the directories above it, the root excluded
Ancestors(p) == { SubSeq(p, 1, i) : i \in 1..Len(p) }

\* the paths of f at or below root
Under(f, root) == { q \in DOMAIN f : IsPrefix(root, q) }

\* the subtree of f at root, as a filesystem of its own
Tree(f, root) == [ q \in Under(f, root) |-> f[q] ]

Rebase(q, from, to) == to \o SubSeq(q, Len(from) + 1, Len(q))

\* os.makedirs(p, exist_ok=True) / Path.mkdir(parents=True)
makedirs(f, p) ==
  [ q \in DOMAIN f \cup Ancestors(p) |-> IF q \in DOMAIN f THEN f[q] ELSE "dir" ]

\* copytree that leaves the files the destination already has
copytree_keep_existing(f, src, dst) ==
  IF ~IsDir(f, src)
  THEN [ok |-> FALSE, fs |-> f]
  ELSE LET g == makedirs(f, dst)
           moved == { Rebase(q, src, dst) : q \in Under(f, src) }
       IN [ok |-> TRUE,
           fs |-> [ r \in DOMAIN g \cup moved |->
                      IF r \in DOMAIN g THEN g[r] ELSE f[Rebase(r, dst, src)] ]]

\* shutil.copytree(src, dst, dirs_exist_ok=True): scandir(src) raises before
\* anything is created when src is missing; otherwise dst and its parents
\* are made and every entry below src is written below dst, files overwritten.
copytree(f, src, dst) ==
  IF ~IsDir(f, src)
  THEN [ok |-> FALSE, fs |-> f]
  ELSE LET g == makedirs(f, dst)
           moved == { Rebase(q, src, dst) : q \in Under(f, src) }
       IN [ok |-> TRUE,
           fs |-> [ r \in DOMAIN g \cup moved |->
                      IF r \in moved THEN f[Rebase(r, dst, src)] ELSE g[r] ]]

\* copy that skips a source that is not there and carries on
copy_best_effort(f, src, dst) ==
  LET target == IF IsDir(f, dst) THEN dst \o <<src[Len(src)]>> ELSE dst
  IN IF ~IsFile(f, src)
     THEN [ok |-> TRUE, fs |-> f]
     ELSE IF ~IsDir(f, Parent(target)) \/ IsDir(f, target)
     THEN [ok |-> FALSE, fs |-> f]
     ELSE [ok |-> TRUE,
           fs |-> [ q \in DOMAIN f \cup {target} |->
                      IF q = target THEN f[src] ELSE f[q] ]]

\* shutil.copy(src, dst): src must be a file; a dst that is a directory
\* receives the file under its own name; the directory of dst must exist.
copy(f, src, dst) ==
  LET target == IF IsDir(f, dst) THEN dst \o <<src[Len(src)]>> ELSE dst
  IN IF ~IsFile(f, src) \/ ~IsDir(f, Parent(target)) \/ IsDir(f, target)
     THEN [ok |-> FALSE, fs |-> f]
     ELSE [ok |-> TRUE,
           fs |-> [ q \in DOMAIN f \cup {target} |->
                      IF q = target THEN f[src] ELSE f[q] ]]

\* shutil.rmtree(p): raises when p does not exist
rmtree(f, p) ==
  IF ~Exists(f, p)
  THEN [ok |-> FALSE, fs |-> f]
  ELSE [ok |-> TRUE, fs |-> [ q \in DOMAIN f \ Under(f, p) |-> f[q] ]]

\* f with the entries of g written over it
Overlay(f, g) ==
  [ q \in DOMAIN f \cup DOMAIN g |-> IF q \in DOMAIN g THEN g[q] ELSE f[q] ]

EmptyFs == [ q \in {} |-> "dir" ]

\* a filesystem holding the given files and the directories above them
MkTree(files) ==
  [ q \in UNION { Ancestors(p) : p \in DOMAIN files } |->
      IF q \in DOMAIN files THEN files[q] ELSE "dir" ]

\* ------------------------------------------------------------------------
\* The trees the commands meet

\* vendor/pymol-open-source as git clone leaves it: the Python packages below
\* modules/ (no LICENSE, README.md, build_linux_exe.py or pymol/data among
\* them, so the base copies never write one destination twice), the assets
\* below data/, LICENSE and README.md.  Whether upstream ships
\* data/pymol/base.css is left open.
VendorTree(css) ==
  MkTree( (tmp_pymol_python_src_path \o <<"pymol", "__init__.py">> :> "V_init")
       @@ (tmp_pymol_python_src_path \o <<"pymol", "cmd.py">> :> "V_cmd")
       @@ (tmp_pymol_python_src_path \o <<"pmg_qt", "pymol_qt_gui.py">> :> "V_qt")
       @@ (tmp_pymol_data_path \o <<"pymol", "splash.png">> :> "V_splash")
       @@ (tmp_pymol_license_filepath :> "V_license")
       @@ (tmp_pymol_readme_filepath :> "V_readme")
       @@ (IF css THEN tmp_pymol_data_path \o <<"pymol", "base.css">> :> "V_css"
                  ELSE tmp_pymol_license_filepath :> "V_license") )

VcpkgTree == MkTree(vcpkg_path \o <<"bootstrap-vcpkg.sh">> :> "B_sh")

\* the local override files, in the order setup_build_environment copies them
OverrideSources ==
  << tmp_edited_base_css_filepath, tmp_edited_pmg_qt_filepath,
     tmp_edited_init_py_filepath, tmp_alternative_splash_screen_filepath >>

OverrideContent ==
     (tmp_edited_base_css_filepath :> "E_css")
  @@ (tmp_edited_pmg_qt_filepath :> "E_qt")
  @@ (tmp_edited_init_py_filepath :> "E_init")
  @@ (tmp_alternative_splash_screen_filepath :> "E_splash")

\* the files of the repository itself; missing = override sources not there
RepoTree(missing) ==
  MkTree( (tmp_build_script_filepath :> "K_build")
       @@ [ p \in DOMAIN OverrideContent \ missing |-> OverrideContent[p] ] )

\* a Working Tree left behind by an earlier build-linux-exe that did not
\* reach its cleanup, out of date with respect to the vendor tree
StaleWorkingTree ==
  MkTree( (src_path \o <<"pymol", "cmd.py">> :> "S_cmd")
       @@ (src_path \o <<"pymol", "data", "pymol", "base.css">> :> "S_css")
       @@ (src_path \o <<"old.py">> :> "S_old") )

\* a src/python left behind by an earlier clean-install
StaleWheelTree ==
  MkTree( (tmp_src_path \o <<"pymol", "cmd.py">> :> "S_cmd")
       @@ (tmp_src_path \o <<"old.py">> :> "S_old") )

CmdSoTree(which) ==
  IF which = "both"
  THEN MkTree((CMD_FROM_BUILD_DIR :> "C_built") @@ (CMD_FROM_PRE_BUILT_DIR :> "C_pre"))
  ELSE IF which = "prebuilt"
  THEN MkTree(CMD_FROM_PRE_BUILT_DIR :> "C_pre")
  ELSE EmptyFs

\* what the external tools leave behind when they produce their outputs
ExeOutput == MkTree(build_dir \o <<"PyMOL">> :> "X_exe")

WheelOutput == MkTree(dist_path \o <<"pymol.whl">> :> "X_whl")

InitialFs ==
  { Overlay(RepoTree(missing),
    Overlay(IF vendor = "none" THEN EmptyFs ELSE VendorTree(vendor = "css"),
    Overlay(IF vcpkg THEN VcpkgTree ELSE EmptyFs,
    Overlay(IF wt THEN StaleWorkingTree ELSE EmptyFs,
    Overlay(IF wheel THEN StaleWheelTree ELSE EmptyFs,
            CmdSoTree(so)))))) :
      missing \in {{}} \cup { {p} : p \in DOMAIN OverrideContent },
      vendor \in {"none", "nocss", "css"},
      vcpkg \in BOOLEAN, wt \in BOOLEAN, wheel \in BOOLEAN,
      so \in {"both", "prebuilt", "none"} }

Commands ==
  { "setup-dev-env", "build-wheel", "build-linux-exe", "clean-install",
    "setup_build_environment" }

\* first statement of each command (main's dispatch; the last entry is the
\* method BuildLinuxExe.setup_build_environment called on its own)
Entry(c) ==
  CASE c = "setup-dev-env" -> "sde_check_pymol"
    [] c = "build-wheel" -> "bw_cps"
    [] c = "build-linux-exe" -> "s_modules"
    [] c = "clean-install" -> "ci_cps"
    [] c = "setup_build_environment" -> "s_modules"

Init ==
  /\ fs \in InitialFs
  /\ pc = "idle"
  /\ cmd = "none"
  /\ rc = "none"
  /\ raisedAt = "none"
  /\ done = {}
  /\ ncmds = 0
  /\ absentAtStart = {}
  /\ streak = 0
  /\ snap = EmptyFs

\* ------------------------------------------------------------------------
\* Control flow shared by the statements

\* statement label completed with filesystem f; control moves to next
\* ("end": the command returns)
Proceed(label, f, next) ==
  /\ fs' = f
  /\ done' = done \cup {label}
  /\ UNCHANGED <<cmd, ncmds, absentAtStart>>
  /\ IF next = "end"
     THEN /\ pc' = "idle"
          /\ raisedAt' = "none"
          /\ IF cmd = "setup_build_environment"
             THEN /\ streak' = IF streak < 2 THEN streak + 1 ELSE 2
                  /\ snap' = IF streak = 0 THEN Tree(f, src_path) ELSE snap
             ELSE /\ streak' = 0
                  /\ snap' = EmptyFs
     ELSE /\ pc' = next
          /\ UNCHANGED <<raisedAt, streak, snap>>

\* statement label raised, leaving filesystem f; nothing catches it
Abort(label, f) ==
  /\ fs' = f
  /\ pc' = "idle"
  /\ raisedAt' = label
  /\ streak' = 0
  /\ snap' = EmptyFs
  /\ UNCHANGED <<cmd, ncmds, done, absentAtStart>>

\* a statement that only touches the filesystem; r is its result
FileStep(label, r, next) ==
  /\ pc = label
  /\ rc' = rc
  /\ IF r.ok THEN Proceed(label, r.fs, next) ELSE Abort(label, r.fs)

\* what a process can exit with, as far as the script could tell them apart
ExitStatus == {"zero", "nonzero"}

\* subprocess.run(..., check=True) would raise on a non-zero status
RunAbortsChecked(status) == status # "zero"

\* subprocess.run without check=True: the exit status is returned in a
\* CompletedProcess that nobody reads, so no status makes the call raise
RunAborts(status) == FALSE

\* subprocess.run(..., cwd=cwd): a missing cwd makes the launch itself raise;
\* otherwise the process leaves one of outcomes (exit status, filesystem)
RunStep(label, cwd, outcomes, next) ==
  /\ pc = label
  /\ IF ~IsDir(fs, cwd)
     THEN /\ rc' = "none"
          /\ Abort(label, fs)
     ELSE \E o \in outcomes :
            /\ rc' = o.rc
            /\ IF RunAborts(o.rc)
               THEN Abort(label, o.fs)
               ELSE Proceed(label, o.fs, next)

\* main(): args.func() for the chosen subcommand
Start ==
  /\ pc = "idle"
  /\ ncmds < MaxCmds
  /\ \E c \in Commands :
       /\ cmd' = c
       /\ pc' = Entry(c)
       /\ streak' = IF c = "setup_build_environment" THEN streak ELSE 0
       /\ snap' = IF c = "setup_build_environment" THEN snap ELSE EmptyFs
  /\ ncmds' = ncmds + 1
  /\ rc' = "none"
  /\ raisedAt' = "none"
  /\ done' = {}
  /\ absentAtStart' = { d \in {tmp_vendor_pymol_path, vcpkg_path} : ~Exists(fs, d) }
  /\ UNCHANGED fs

\* ------------------------------------------------------------------------
\* BuildLinuxExe.setup_build_environment, one action per copy operation

s_modules ==
  FileStep("s_modules", copytree(fs, tmp_pymol_python_src_path, src_path), "s_data")

s_data ==
  FileStep("s_data", copytree(fs, tmp_pymol_data_path, pymol_data_path), "s_script")

s_script ==
  FileStep("s_script", copy(fs, tmp_build_script_filepath, build_script_filepath),
           "s_license")

s_license ==
  FileStep("s_license", copy(fs, tmp_pymol_license_filepath, license_filepath),
           "s_readme")

s_readme ==
  FileStep("s_readme", copy(fs, tmp_pymol_readme_filepath, readme_filepath), "s_css")

s_css ==
  FileStep("s_css", copy(fs, tmp_edited_base_css_filepath, base_css_destination),
           "s_qt")

s_qt ==
  FileStep("s_qt", copy(fs, tmp_edited_pmg_qt_filepath, pmg_qt_destination), "s_init")

s_init ==
  FileStep("s_init", copy(fs, tmp_edited_init_py_filepath, init_py_destination),
           "s_splash")

\* the last copy; build() goes on with the build script, a direct call returns
s_splash ==
  FileStep("s_splash",
           copy(fs, tmp_alternative_splash_screen_filepath, splash_destination),
           IF cmd = "build-linux-exe" THEN "ble_run" ELSE "end")

\* ------------------------------------------------------------------------
\* BuildLinuxExe.build after setup_build_environment

\* the build script runs in the Working Tree; it may or may not leave
\* pymol/build behind, whatever its exit status
ble_run ==
  RunStep("ble_run", src_path,
          { [rc |-> r, fs |-> g] : r \in ExitStatus, g \in {fs, Overlay(fs, ExeOutput)} },
          "ble_dist")

ble_dist ==
  FileStep("ble_dist", copytree(fs, build_dir, dist_path), "ble_clean")

ble_clean ==
  FileStep("ble_clean",
           IF ~DEBUG THEN rmtree(fs, src_path) ELSE [ok |-> TRUE, fs |-> fs],
           "end")

\* ------------------------------------------------------------------------
\* copy_pymol_sources, build_wheel, clean_install

\* copy_pymol_sources without the exists() test
copy_pymol_sources_always(f) ==
  copytree(makedirs(f, tmp_src_path), tmp_pymol_python_src_path, tmp_src_path)

copy_pymol_sources(f) ==
  IF ~Exists(f, tmp_src_path)
  THEN copytree(makedirs(f, tmp_src_path), tmp_pymol_python_src_path, tmp_src_path)
  ELSE [ok |-> TRUE, fs |-> f]

bw_cps == FileStep("bw_cps", copy_pymol_sources(fs), "bw_cmd")

bw_cmd ==
  FileStep("bw_cmd",
           IF Exists(fs, CMD_FROM_BUILD_DIR)
           THEN copy(fs, CMD_FROM_BUILD_DIR, cmd_so_destination)
           ELSE copy(fs, CMD_FROM_PRE_BUILT_DIR, cmd_so_destination),
           "bw_run")

bw_run ==
  RunStep("bw_run", PROJECT_ROOT_DIR,
          { [rc |-> r, fs |-> g] : r \in ExitStatus, g \in {fs, Overlay(fs, WheelOutput)} },
          "bw_clean")

bw_clean == FileStep("bw_clean", rmtree(fs, wheel_src_root), "end")

ci_cps == FileStep("ci_cps", copy_pymol_sources(fs), "ci_clean")

ci_clean ==
  FileStep("ci_clean",
           IF Exists(fs, tmp_build_dir)
           THEN rmtree(fs, tmp_build_dir)
           ELSE [ok |-> TRUE, fs |-> fs],
           "ci_pip")

\* pip builds in cmake-build-setup_py, which it may leave behind
ci_pip ==
  RunStep("ci_pip", PROJECT_ROOT_DIR,
          { [rc |-> r, fs |-> g] : r \in ExitStatus, g \in {fs, makedirs(fs, tmp_build_dir)} },
          "end")

\* ------------------------------------------------------------------------
\* setup_dev_env

sde_check_pymol ==
  FileStep("sde_check_pymol", [ok |-> TRUE, fs |-> fs],
           IF ~Exists(fs, tmp_vendor_pymol_path)
           THEN "sde_clone_pymol" ELSE "sde_check_vcpkg")

\* git clone creates the directory when it succeeds and leaves none behind
\* when it fails
sde_clone_pymol ==
  RunStep("sde_clone_pymol", PROJECT_ROOT_DIR,
          { [rc |-> "zero", fs |-> Overlay(fs, VendorTree(css))] : css \in BOOLEAN }
            \cup { [rc |-> "nonzero", fs |-> fs] },
          "sde_checkout")

sde_checkout ==
  RunStep("sde_checkout", tmp_vendor_pymol_path,
          { [rc |-> r, fs |-> fs] : r \in ExitStatus }, "sde_generate")

sde_generate ==
  RunStep("sde_generate", PROJECT_ROOT_DIR,
          { [rc |-> r, fs |-> fs] : r \in ExitStatus }, "sde_check_vcpkg")

sde_check_vcpkg ==
  FileStep("sde_check_vcpkg", [ok |-> TRUE, fs |-> fs],
           IF ~Exists(fs, vcpkg_path) THEN "sde_clone_vcpkg" ELSE "end")

sde_clone_vcpkg ==
  RunStep("sde_clone_vcpkg", PROJECT_ROOT_DIR,
          { [rc |-> "zero", fs |-> Overlay(fs, VcpkgTree)], [rc |-> "nonzero", fs |-> fs] },
          "sde_chmod")

sde_chmod ==
  RunStep("sde_chmod", vcpkg_path, { [rc |-> r, fs |-> fs] : r \in ExitStatus },
          "sde_bootstrap")

sde_bootstrap ==
  RunStep("sde_bootstrap", vcpkg_path,
          { [rc |-> "zero", fs |-> Overlay(fs, MkTree(vcpkg_path \o <<"vcpkg">> :> "B_bin"))],
            [rc |-> "nonzero", fs |-> fs] },
          "end")

\* ------------------------------------------------------------------------

Next ==
  \/ Start
  \/ s_modules \/ s_data \/ s_script \/ s_license \/ s_readme
  \/ s_css \/ s_qt \/ s_init \/ s_splash
  \/ ble_run \/ ble_dist \/ ble_clean
  \/ bw_cps \/ bw_cmd \/ bw_run \/ bw_clean
  \/ ci_cps \/ ci_clean \/ ci_pip
  \/ sde_check_pymol \/ sde_clone_pymol \/ sde_checkout \/ sde_generate
  \/ sde_check_vcpkg \/ sde_clone_vcpkg \/ sde_chmod \/ sde_bootstrap

Spec == Init /\ [][Next]_vars

TypeOK ==
  /\ pc \in STRING
  /\ ncmds \in 0..MaxCmds
  /\ streak \in 0..2
  /\ \A p \in DOMAIN fs : IsDir(fs, Parent(p))

\* ========================================================================
\* Properties

\* the Override Set: designated path inside the Working Tree -> override file
OverrideSet ==
     (pymol_data_path \o <<"pymol", "base.css">> :> tmp_edited_base_css_filepath)
  @@ (src_path \o <<"pmg_qt", "pymol_qt_gui.py">> :> tmp_edited_pmg_qt_filepath)
  @@ (src_path \o <<"pymol", "__init__.py">> :> tmp_edited_init_py_filepath)
  @@ (src_path \o <<"pymol", "data", "pymol", "splash.png">>
        :> tmp_alternative_splash_screen_filepath)

\* setup_build_environment has just returned normally
SetupSucceeded ==
  /\ "s_splash" \in done
  /\ \/ pc = "ble_run"
     \/ pc = "idle" /\ cmd = "setup_build_environment" /\ raisedAt = "none"

SetupSteps ==
  {"s_modules", "s_data", "s_script", "s_license", "s_readme",
   "s_css", "s_qt", "s_init", "s_splash"}

\* C1 - overlay precedence: once setup_build_environment has returned, every
\* override entry's path in the Working Tree holds the override file's content.
C1_OverlayPrecedence ==
  SetupSucceeded =>
    \A p \in DOMAIN OverrideSet :
      IsFile(fs, p) /\ fs[p] = fs[OverrideSet[p]]

\* C2 - the vendor tree is read-only: no step of any command changes an
\* existing vendor/pymol-open-source, and the assembly steps change nothing
\* outside the Working Tree they assemble.
C2_VendorReadOnly ==
  [][ /\ Exists(fs, tmp_vendor_pymol_path) =>
           Tree(fs', tmp_vendor_pymol_path) = Tree(fs, tmp_vendor_pymol_path)
      /\ pc \in SetupSteps =>
           \A q \in DOMAIN fs \cup DOMAIN fs' :
             ~IsPrefix(src_path, q) =>
               q \in DOMAIN fs /\ q \in DOMAIN fs' /\ fs'[q] = fs[q]
      /\ pc \in {"bw_cps", "ci_cps"} =>
           \A q \in DOMAIN fs \cup DOMAIN fs' :
             ~IsPrefix(wheel_src_root, q) =>
               q \in DOMAIN fs /\ q \in DOMAIN fs' /\ fs'[q] = fs[q] ]_vars

\* C3 - cleanup unconditionality: with DEBUG false, once a build action whose
\* external build process ran has finished, its Working Tree is gone.
C3_CleanupUnconditional ==
  (~DEBUG /\ pc = "idle") =>
    /\ (cmd = "build-linux-exe" /\ "ble_run" \in done) => ~Exists(fs, src_path)
    /\ (cmd = "build-wheel" /\ "bw_run" \in done) => ~Exists(fs, wheel_src_root)

\* C4 - idempotent re-assembly: after two successful calls of
\* setup_build_environment in a row the Working Tree is what the first left.
C4_IdempotentReassembly ==
  (pc = "idle" /\ streak = 2) => Tree(fs, src_path) = snap

\* C5 - fail-fast on a missing vendor root: without vendor/pymol-open-source
\* each assembly procedure raises, and a Working Tree directory that was not
\* there before the call is not there after it.
C5_FailFastVendorRoot ==
  [][ ~Exists(fs, tmp_vendor_pymol_path) =>
        /\ pc = "s_modules" =>
              /\ raisedAt' = "s_modules"
              /\ ~Exists(fs, src_path) => ~Exists(fs', src_path)
        /\ pc \in {"bw_cps", "ci_cps"} =>
              /\ raisedAt' = pc
              /\ ~Exists(fs, tmp_src_path) => ~Exists(fs', tmp_src_path) ]_vars

\* the statements that apply the overrides, in order, and what build() does
\* after setup_build_environment
OverrideSteps == <<"s_css", "s_qt", "s_init", "s_splash">>

AfterOverride(i) ==
  { OverrideSteps[j] : j \in i..4 } \cup {"ble_run", "ble_dist", "ble_clean"}

\* C6 - fail-fast on a missing override source: the copy of an absent
\* override file raises there and then; that override and every later one
\* is not applied, and build script, copy to dist and cleanup do not run.
C6_FailFastOverride ==
  [][ \A i \in 1..4 :
        /\ (pc = OverrideSteps[i] /\ ~IsFile(fs, OverrideSources[i])) =>
              /\ pc' = "idle"
              /\ raisedAt' = OverrideSteps[i]
              /\ fs' = fs
        /\ raisedAt' = OverrideSteps[i] => done' \cap AfterOverride(i) = {} ]_vars

C6_Witness ==
  /\ pc = "idle"
  /\ cmd = "build-linux-exe"
  /\ raisedAt = "s_qt"
  /\ ~IsFile(fs, tmp_edited_pmg_qt_filepath)
  /\ "s_css" \in done
  /\ IsFile(fs, tmp_edited_init_py_filepath)
  /\ fs[init_py_destination] = "V_init"

AfterRun ==
     ("ble_run" :> "ble_dist") @@ ("bw_run" :> "bw_clean") @@ ("ci_pip" :> "idle")
  @@ ("sde_clone_pymol" :> "sde_checkout") @@ ("sde_checkout" :> "sde_generate")
  @@ ("sde_generate" :> "sde_check_vcpkg") @@ ("sde_clone_vcpkg" :> "sde_chmod")
  @@ ("sde_chmod" :> "sde_bootstrap") @@ ("sde_bootstrap" :> "idle")

\* C8 - the exit status is ignored: when an external process was started and
\* has returned, with status zero or not, the script goes on to the same next
\* statement and no exception ends the command.
C8_ExitStatusIgnored ==
  [][ \A s \in DOMAIN AfterRun :
        (pc = s /\ rc' # "none") =>
          (pc' = AfterRun[s] /\ raisedAt' = "none" /\ s \in done') ]_vars

C8_Witness ==
  /\ rc = "nonzero"
  /\ pc = "ble_dist"
  /\ "ble_run" \in done

\* C9 - setup-dev-env clones only what is absent: when setup-dev-env has
\* ended, for each vendor directory the clone and its follow-up steps ran if
\* and only if the directory was missing when the command started.
C9_ClonesOnlyAbsent ==
  (pc = "idle" /\ cmd = "setup-dev-env") =>
    /\ tmp_vendor_pymol_path \in absentAtStart
         => {"sde_clone_pymol", "sde_checkout", "sde_generate"} \subseteq done
    /\ tmp_vendor_pymol_path \notin absentAtStart
         => {"sde_clone_pymol", "sde_checkout", "sde_generate"} \cap done = {}
    /\ vcpkg_path \in absentAtStart
         => {"sde_clone_vcpkg", "sde_chmod", "sde_bootstrap"} \subseteq done
    /\ vcpkg_path \notin absentAtStart
         => {"sde_clone_vcpkg", "sde_chmod", "sde_bootstrap"} \cap done = {}

\* C10 - copy_pymol_sources is a no-op on an existing tree: with src/python
\* there it changes nothing and returns; it writes below src/python only when
\* src/python did not exist, and then copies the vendor modules into it.
C10_NoOpOnExistingTree ==
  [][ (pc \in {"bw_cps", "ci_cps"}) =>
        /\ Exists(fs, tmp_src_path) =>
              (fs' = fs /\ raisedAt' = "none" /\ pc' # "idle")
        /\ Tree(fs', tmp_src_path) # Tree(fs, tmp_src_path) =>
              ~Exists(fs, tmp_src_path)
        /\ (~Exists(fs, tmp_src_path) /\ IsDir(fs, tmp_pymol_python_src_path)) =>
              \A q \in Under(fs, tmp_pymol_python_src_path) :
                fs'[Rebase(q, tmp_pymol_python_src_path, tmp_src_path)] = fs[q] ]_vars

\* build-wheel went past copy_pymol_sources with a stale src/python next to a
\* vendor tree that has another cmd.py
C10_Witness ==
  /\ pc = "bw_cmd"
  /\ "bw_cps" \in done
  /\ IsFile(fs, tmp_pymol_python_src_path \o <<"pymol", "cmd.py">>)
  /\ fs[tmp_pymol_python_src_path \o <<"pymol", "cmd.py">>] = "V_cmd"
  /\ IsFile(fs, tmp_src_path \o <<"pymol", "cmd.py">>)
  /\ fs[tmp_src_path \o <<"pymol", "cmd.py">>] = "S_cmd"

====
